---- MODULE Spec2Model ----
(***************************************************************************)
(* Model of the arm path pipeline of POE-TBD:                              *)
(*   src/software/pointutil.py   inverseKinematics, interpolatePoints,     *)
(*                               convertWaypoints                          *)
(*   src/software/bigshabang.py  square, circle, star                      *)
(*                                                                         *)
(* The program is single threaded: one call is active at a time.  `call`   *)
(* names the function that is running or that ran last, `args` its         *)
(* arguments, `outcome` how it ended (returned, or raised which exception) *)
(* and the remaining variables are the values of the running function:     *)
(*   points        what interpolatePoints returns                          *)
(*   angles        what inverseKinematics returns                          *)
(*   interpPoints  convertWaypoints' list of interpolated points           *)
(*   waypoints     convertWaypoints' list of angles, which it returns      *)
(*   pc            the loop index or statement the function is at          *)
(*   locals        the angles square, circle and star have solved          *)
(*   sent          the commands handed to sender.sendangle                 *)
(*                                                                         *)
(* Numbers.  A coordinate is an exact rational: a point is a record        *)
(* [x, y, den] standing for (x/den, y/den).  Angles are whole degrees:     *)
(* math.atan and math.acos are evaluated against a cosine table, each to   *)
(* within one degree.  A resolution `res` is carried as res2 = 2*res so    *)
(* that the default 0.5 is an integer.                                     *)
(*                                                                         *)
(* np.linspace is modelled as in the numpy releases the repository runs    *)
(* on (1.16, 1.17): a float sample count is converted with int(), i.e.     *)
(* truncated towards zero, after a deprecation warning.                    *)
(***************************************************************************)
EXTENDS Integers, Sequences, FiniteSets, TLC

VARIABLES call, args, outcome, points, angles, interpPoints, waypoints, pc,
          locals, sent

vars == <<call, args, outcome, points, angles, interpPoints, waypoints, pc,
          locals, sent>>

(***************************************************************************)
(* Bounds of the explored inputs.                                          *)
(***************************************************************************)
\* interpolatePoints is called with endpoints in (0..MaxCoord) x (0..MaxCoord)
MaxCoord == 3
\* ... and with 2*res in -MaxRes2..MaxRes2
MaxRes2 == 4
\* inverseKinematics is called on the grid 100 * (-MaxK..MaxK) in x and y
MaxK == 5
\* convertWaypoints is called with endpoints within PlanSpan of the base or
\* of the point (0, Reach)
PlanSpan == 1

(***************************************************************************)
(* Program constants.                                                      *)
(***************************************************************************)
\* the literal 400 of acos(D / 400)
Reach == 400
\* res=0.5, as 2*res
DefaultRes2 == 1
\* fixed point scale of the cosine table
Scale == 10000
\* the float nan, which is not an angle
NaN == 999999

\* round(cos(d degrees) * Scale) for d = 0..90, at index d + 1
CosTable ==
  << 10000, 9998, 9994, 9986, 9976, 9962, 9945, 9925, 9903, 9877, 9848, 9816, 9781,
      9744, 9703, 9659, 9613, 9563, 9511, 9455, 9397, 9336, 9272, 9205, 9135, 9063,
      8988, 8910, 8829, 8746, 8660, 8572, 8480, 8387, 8290, 8192, 8090, 7986, 7880,
      7771, 7660, 7547, 7431, 7314, 7193, 7071, 6947, 6820, 6691, 6561, 6428, 6293,
      6157, 6018, 5878, 5736, 5592, 5446, 5299, 5150, 5000, 4848, 4695, 4540, 4384,
      4226, 4067, 3907, 3746, 3584, 3420, 3256, 3090, 2924, 2756, 2588, 2419, 2250,
      2079, 1908, 1736, 1564, 1392, 1219, 1045, 872, 698, 523, 349, 175, 0 >>

CosE4(d) == CosTable[d + 1]

SinE4(d) == CosTable[91 - d]

(***************************************************************************)
(* Arithmetic helpers.                                                     *)
(***************************************************************************)
Abs(a) == IF a < 0 THEN -a ELSE a

Sgn(a) == IF a < 0 THEN -1 ELSE IF a > 0 THEN 1 ELSE 0

CeilDiv(a, b) == (a + b - 1) \div b

SetMax(S) == CHOOSE m \in S : \A n \in S : n <= m

Point(x, y) == [x |-> x, y |-> y, den |-> 1]

\* the arguments of a call; a function that takes fewer leaves the others at
\* these values
NoArgs == [p1 |-> Point(0, 0), p2 |-> Point(0, 0), res2 |-> 0, np |-> FALSE]

\* how a call ends, with the value it returns
Returned(v) == [status |-> "returned", error |-> "", value |-> v]

Raised(e) == [status |-> "raised", error |-> e, value |-> <<>>]

\* the state of a call: how it ended, without the value
Status(r) == [status |-> r.status, error |-> r.error]

Running == [status |-> "running", error |-> ""]

(***************************************************************************)
(* inverseKinematics                                                       *)
(***************************************************************************)
\* ceil(Scale * (D / 400)^2) for D = sqrt(x^2 + y^2); nested ceilings keep the
\* intermediate values small
DRatioSq(p) ==
  CeilDiv(CeilDiv(p.x * p.x + p.y * p.y, p.den), ((Reach * Reach) \div Scale) * p.den)

\* D / 400 > 1: math.acos raises "math domain error"
AcosDomainError(p) == DRatioSq(p) > Scale

\* math.acos(D / 400) in degrees: the largest d with cos(d) >= D / 400
AcosDeg(p) ==
  SetMax({d \in 0..90 : CosE4(d) * CosE4(d) >= Scale * DRatioSq(p)})

\* math.atan(x / y) in degrees, truncated towards zero: the largest d with
\* tan(d) <= |x / y|, signed as x / y.  For y = 0 the quotient of two
\* numpy floats is +-inf and the angle +-90.
AtanDeg(x, y) ==
  LET mag == SetMax({d \in 0..90 : SinE4(d) * Abs(y) <= CosE4(d) * Abs(x)})
  IN  Sgn(x) * (IF y < 0 THEN -1 ELSE 1) * mag

\* inverseKinematics without the branch on the sign of x (a variant used to
\* show that the mirror property below rests on that branch)
InverseKinematicsNoBranch(p, np) ==
  IF p.y = 0 /\ ~np THEN Raised("ZeroDivisionError")
  ELSE IF AcosDomainError(p) THEN Raised("ValueError")
  ELSE IF p.y = 0 /\ p.x = 0 THEN Returned(<<NaN, NaN>>)
  ELSE Returned(<<180 + AtanDeg(p.x, p.y) + AcosDeg(p),
                  180 + AtanDeg(p.x, p.y) - AcosDeg(p)>>)

\* inverseKinematics(x, y) for the point p = (x, y); np tells that x and y are
\* numpy.float64 scalars (as convertWaypoints passes them) rather than Python
\* numbers: x / y with y = 0 raises for Python numbers and gives inf or nan,
\* with a warning, for numpy scalars.
InverseKinematics(p, np) ==
  IF p.y = 0 /\ ~np THEN Raised("ZeroDivisionError")
  ELSE IF AcosDomainError(p) THEN Raised("ValueError")
  ELSE IF p.y = 0 /\ p.x = 0 THEN Returned(<<NaN, NaN>>)
  ELSE IF p.x > 0
       THEN Returned(<<180 + AtanDeg(p.x, p.y) + AcosDeg(p),
                       180 + AtanDeg(p.x, p.y) - AcosDeg(p)>>)
       ELSE Returned(<<180 - AtanDeg(p.x, p.y) + AcosDeg(p),
                       180 - AtanDeg(p.x, p.y) - AcosDeg(p)>>)

(***************************************************************************)
(* interpolatePoints                                                       *)
(***************************************************************************)
\* squared norm of P2 - P1
DistSq(P1, P2) ==
  (P2.x - P1.x) * (P2.x - P1.x) + (P2.y - P1.y) * (P2.y - P1.y)

\* floor(dist / |res|) for res # 0: the largest n with (n * res)^2 <= dist^2
FloorQuot(d2, res2) ==
  SetMax({n \in 0..(4 * d2) : n * n * res2 * res2 <= 4 * d2})

\* int(dist / res + 1), the sample count linspace uses, for res # 0
NumSamples(d2, res2) ==
  IF res2 > 0 THEN FloorQuot(d2, res2) + 1
  ELSE IF d2 = 0 THEN 1
  ELSE IF FloorQuot(d2, res2) = 0 THEN 0
  ELSE 1 - FloorQuot(d2, res2)

\* np.linspace(P1, P2, num) for an integer num >= 0: num evenly spaced points,
\* the last one set to P2 when num > 1, and [P1] when num = 1
Linspace(P1, P2, num) ==
  IF num = 1 THEN << P1 >>
  ELSE [i \in 1..num |->
          [x |-> P1.x * (num - 1) + (i - 1) * (P2.x - P1.x),
           y |-> P1.y * (num - 1) + (i - 1) * (P2.y - P1.y),
           den |-> num - 1]]

\* interpolatePoints(P1, P2, res) with res = res2 / 2, for endpoints with
\* integer coordinates
InterpolatePoints(P1, P2, res2) ==
  LET d2 == DistSq(P1, P2)
  IN  IF res2 = 0
      THEN IF d2 = 0 THEN Raised("ValueError") ELSE Raised("OverflowError")
      ELSE IF NumSamples(d2, res2) < 0 THEN Raised("ValueError")
      ELSE Returned(Linspace(P1, P2, NumSamples(d2, res2)))

(***************************************************************************)
(* Inputs                                                                  *)
(***************************************************************************)
InterpEnds == {Point(i, j) : i \in 0..MaxCoord, j \in 0..MaxCoord}

Resolutions == (-MaxRes2)..MaxRes2

\* targets on a grid of pitch 100, as the targets of square() are
Targets == {Point(100 * i, 100 * j) : i \in (-MaxK)..MaxK, j \in (-MaxK)..MaxK}

NearBase ==
  {Point(i, j) : i \in (-PlanSpan)..PlanSpan, j \in (-PlanSpan)..PlanSpan}

NearReach ==
  {Point(i, j) : i \in (-PlanSpan)..PlanSpan,
                 j \in (Reach - PlanSpan)..(Reach + PlanSpan)}

PlanEnds == (NearBase \X NearBase) \cup (NearReach \X NearReach)

(***************************************************************************)
(* State machine                                                           *)
(***************************************************************************)
Init ==
  /\ call = "none"
  /\ args = NoArgs
  /\ outcome = [status |-> "none", error |-> ""]
  /\ points = <<>>
  /\ angles = <<>>
  /\ interpPoints = <<>>
  /\ waypoints = <<>>
  /\ pc = 0
  /\ locals = <<>>
  /\ sent = <<>>

\* the script has not called anything yet: every run of a script starts from
\* a fresh interpreter
Idle == call = "none"

\* what a pure call leaves alone
Fresh ==
  /\ interpPoints' = <<>>
  /\ waypoints' = <<>>
  /\ pc' = 0
  /\ locals' = <<>>
  /\ sent' = <<>>

CallInterpolatePoints ==
  /\ Idle
  /\ \E P1 \in InterpEnds, P2 \in InterpEnds, res2 \in Resolutions :
       /\ call' = "interpolatePoints"
       /\ args' = [NoArgs EXCEPT !.p1 = P1, !.p2 = P2, !.res2 = res2]
       /\ outcome' = Status(InterpolatePoints(P1, P2, res2))
       /\ points' = InterpolatePoints(P1, P2, res2).value
  /\ angles' = <<>>
  /\ Fresh

CallInverseKinematics ==
  /\ Idle
  /\ \E p \in Targets, np \in BOOLEAN :
       /\ call' = "inverseKinematics"
       /\ args' = [NoArgs EXCEPT !.p1 = p, !.np = np]
       /\ outcome' = Status(InverseKinematics(p, np))
       /\ angles' = InverseKinematics(p, np).value
  /\ points' = <<>>
  /\ Fresh

(***************************************************************************)
(* convertWaypoints: one action per loop iteration                         *)
(***************************************************************************)
\* interpPoints = interpolatePoints(p1, p2); waypoints = []
ConvertWaypoints ==
  /\ Idle
  /\ \E ends \in PlanEnds :
       LET interp == InterpolatePoints(ends[1], ends[2], DefaultRes2)
       IN  /\ call' = "convertWaypoints"
           /\ args' = [NoArgs EXCEPT !.p1 = ends[1], !.p2 = ends[2],
                                     !.res2 = DefaultRes2]
           /\ interpPoints' = interp.value
           /\ outcome' = IF interp.status = "raised" THEN Status(interp)
                         ELSE Running
  /\ points' = <<>>
  /\ angles' = <<>>
  /\ waypoints' = <<>>
  /\ pc' = 1
  /\ locals' = <<>>
  /\ sent' = <<>>

\* a loop iteration that catches the solver's exception and returns the
\* waypoints computed so far (a variant: the code has no try/except)
ConvertWaypointsStepPartial ==
  /\ call = "convertWaypoints"
  /\ outcome.status = "running"
  /\ pc <= Len(interpPoints)
  /\ LET solvedpoint == InverseKinematics(interpPoints[pc], TRUE)
     IN  IF solvedpoint.status = "raised"
         THEN /\ outcome' = Status(Returned(waypoints))
              /\ waypoints' = waypoints
              /\ pc' = pc
         ELSE /\ outcome' = outcome
              /\ waypoints' = Append(waypoints, solvedpoint.value)
              /\ pc' = pc + 1
  /\ UNCHANGED <<call, args, points, angles, interpPoints, locals, sent>>

\* a loop iteration that advances by two points (a variant: every other
\* interpolated point is skipped)
ConvertWaypointsStepSkip ==
  /\ call = "convertWaypoints"
  /\ outcome.status = "running"
  /\ pc <= Len(interpPoints)
  /\ LET solvedpoint == InverseKinematics(interpPoints[pc], TRUE)
     IN  IF solvedpoint.status = "raised"
         THEN /\ outcome' = Status(solvedpoint)
              /\ waypoints' = <<>>
              /\ pc' = pc
         ELSE /\ outcome' = outcome
              /\ waypoints' = Append(waypoints, solvedpoint.value)
              /\ pc' = pc + 2
  /\ UNCHANGED <<call, args, points, angles, interpPoints, locals, sent>>

\* one iteration of `for point in interpPoints`: an exception of
\* inverseKinematics leaves the function, and its locals are dropped
ConvertWaypointsStep ==
  /\ call = "convertWaypoints"
  /\ outcome.status = "running"
  /\ pc <= Len(interpPoints)
  /\ LET solvedpoint == InverseKinematics(interpPoints[pc], TRUE)
     IN  IF solvedpoint.status = "raised"
         THEN /\ outcome' = Status(solvedpoint)
              /\ waypoints' = <<>>
              /\ pc' = pc
         ELSE /\ outcome' = outcome
              /\ waypoints' = Append(waypoints, solvedpoint.value)
              /\ pc' = pc + 1
  /\ UNCHANGED <<call, args, points, angles, interpPoints, locals, sent>>

\* return waypoints
ConvertWaypointsReturn ==
  /\ call = "convertWaypoints"
  /\ outcome.status = "running"
  /\ pc > Len(interpPoints)
  /\ outcome' = Status(Returned(waypoints))
  /\ UNCHANGED <<call, args, points, angles, interpPoints, waypoints, pc, locals,
                 sent>>

(***************************************************************************)
(* square, circle, star: one action per statement                          *)
(***************************************************************************)
\* v = inverseKinematics(x, y): the value is appended to locals
SolveSt(x, y) == [op |-> "solve", target |-> Point(x, y), var |-> 0]

\* sender.sendangle(*v) for the k-th solved value
SendSt(k) == [op |-> "send", target |-> Point(0, 0), var |-> k]

\* time.sleep(5)
SleepSt == [op |-> "sleep", target |-> Point(0, 0), var |-> 0]

SquareBody ==
  << SolveSt(100, 200), SolveSt(-100, 200), SolveSt(-100, 300), SolveSt(100, 300),
     SolveSt(100, 200),
     SendSt(1), SleepSt, SendSt(2), SleepSt, SendSt(3), SleepSt, SendSt(4), SleepSt,
     SendSt(5) >>

CircleBody ==
  << SolveSt(100, 200), SolveSt(90, 180), SolveSt(80, 160), SolveSt(90, 140),
     SolveSt(100, 120), SolveSt(110, 140), SolveSt(120, 160), SolveSt(110, 180),
     SolveSt(100, 200),
     SendSt(1), SleepSt, SendSt(2), SleepSt, SendSt(3), SleepSt, SendSt(4), SleepSt,
     SendSt(5), SleepSt, SendSt(6), SleepSt, SendSt(7), SleepSt, SendSt(8), SleepSt,
     SendSt(9), SleepSt >>

theta == <<10, 20, 30, 40, 50, 60, 70, 80>>

\* the point (10/360 * cos(n), 10/360 * sin(n)) for n in degrees
StarPoint(n) == [x |-> CosE4(n), y |-> SinE4(n), den |-> (360 * Scale) \div 10]

\* for n in theta: a = inverseKinematics(x, y); sender.sendangle(*a); sleep
StarBody ==
  [k \in 1..(3 * Len(theta)) |->
     LET i == (k + 2) \div 3
     IN  IF k = 3 * i - 2
         THEN [op |-> "solve", target |-> StarPoint(theta[i]), var |-> 0]
         ELSE IF k = 3 * i - 1 THEN SendSt(i) ELSE SleepSt]

Shapes == {"square", "circle", "star"}

Body(shape) ==
  IF shape = "square" THEN SquareBody
  ELSE IF shape = "circle" THEN CircleBody
  ELSE StarBody

Enter(shape) ==
  /\ Idle
  /\ call' = shape
  /\ args' = NoArgs
  /\ outcome' = Running
  /\ points' = <<>>
  /\ angles' = <<>>
  /\ interpPoints' = <<>>
  /\ waypoints' = <<>>
  /\ pc' = 1
  /\ locals' = <<>>
  /\ sent' = <<>>

square == Enter("square")

circle == Enter("circle")

star == Enter("star")

\* the statement the running shape is at
AtStatement(op) ==
  /\ call \in Shapes
  /\ outcome.status = "running"
  /\ pc <= Len(Body(call))
  /\ Body(call)[pc].op = op

\* a = inverseKinematics(x, y) with Python numbers
SolveStatement ==
  /\ AtStatement("solve")
  /\ LET a == InverseKinematics(Body(call)[pc].target, FALSE)
     IN  IF a.status = "raised"
         THEN /\ outcome' = Status(a)
              /\ locals' = <<>>
              /\ pc' = pc
         ELSE /\ outcome' = outcome
              /\ locals' = Append(locals, a.value)
              /\ pc' = pc + 1
  /\ UNCHANGED <<call, args, points, angles, interpPoints, waypoints, sent>>

\* sender.sendangle(*a)
SendStatement ==
  /\ AtStatement("send")
  /\ sent' = Append(sent, locals[Body(call)[pc].var])
  /\ pc' = pc + 1
  /\ UNCHANGED <<call, args, outcome, points, angles, interpPoints, waypoints,
                 locals>>

\* time.sleep(5)
SleepStatement ==
  /\ AtStatement("sleep")
  /\ pc' = pc + 1
  /\ UNCHANGED <<call, args, outcome, points, angles, interpPoints, waypoints,
                 locals, sent>>

\* the end of the function body
ShapeReturn ==
  /\ call \in Shapes
  /\ outcome.status = "running"
  /\ pc > Len(Body(call))
  /\ outcome' = Status(Returned(<<>>))
  /\ UNCHANGED <<call, args, points, angles, interpPoints, waypoints, pc, locals,
                 sent>>

Next ==
  \/ CallInterpolatePoints
  \/ CallInverseKinematics
  \/ ConvertWaypoints
  \/ ConvertWaypointsStep
  \/ ConvertWaypointsReturn
  \/ square
  \/ circle
  \/ star
  \/ SolveStatement
  \/ SendStatement
  \/ SleepStatement
  \/ ShapeReturn

Spec == Init /\ [][Next]_vars

(***************************************************************************)
(* Properties                                                              *)
(***************************************************************************)
\* the points a and b are the same point of the plane
SamePoint(a, b) == a.x * b.den = b.x * a.den /\ a.y * b.den = b.y * a.den

\* two points of one linspace are at most res2 / 2 apart
WithinRes(a, b, res2) ==
  4 * ((b.x - a.x) * (b.x - a.x) + (b.y - a.y) * (b.y - a.y))
    <= res2 * res2 * a.den * a.den

\* D > 400 and D = 0 for a target, straight from its coordinates
BeyondReach(p) == p.x * p.x + p.y * p.y > Reach * Reach * p.den * p.den

AtBase(p) == p.x = 0 /\ p.y = 0

\* C1: for every pair of endpoints and every positive resolution, the
\* sequence interpolatePoints returns starts with P1, ends with P2, and every
\* two consecutive points are at most the resolution apart.
C1_EndpointsAndSpacing ==
  (call = "interpolatePoints" /\ args.res2 > 0) =>
    /\ outcome.status = "returned"
    /\ Len(points) >= 1
    /\ SamePoint(points[1], args.p1)
    /\ SamePoint(points[Len(points)], args.p2)
    /\ \A i \in 1..(Len(points) - 1) :
         WithinRes(points[i], points[i + 1], args.res2)

\* C2: for every pair of endpoints and every positive resolution,
\* interpolatePoints returns exactly ceil(dist / res) + 1 points (one point,
\* P1, when P1 = P2).
C2_CeilCount ==
  (call = "interpolatePoints" /\ args.res2 > 0) =>
    LET d2 == DistSq(args.p1, args.p2)
        up == {n \in 0..(4 * d2) : n * n * args.res2 * args.res2 >= 4 * d2}
        ceilQuot == CHOOSE n \in up : \A m \in up : n <= m
    IN  /\ outcome.status = "returned"
        /\ Len(points) = ceilQuot + 1
        /\ (args.p1 = args.p2 => points = <<args.p1>>)

\* C3: inverseKinematics fails with the out-of-reach error (the domain error
\* of acos, ValueError) for every target farther than the reach from the
\* base, and with an error of another kind for the target (0, 0); it returns
\* angles in neither case.
C3_ErrorKinds ==
  call = "inverseKinematics" =>
    /\ BeyondReach(args.p1) =>
         outcome.status = "raised" /\ outcome.error = "ValueError"
    /\ AtBase(args.p1) =>
         outcome.status = "raised" /\ outcome.error # "ValueError"

\* C4: for every target with 0 < D <= reach, on an axis or in any quadrant,
\* inverseKinematics returns a pair of angles and does not fail.
C4_ReachableNeverFails ==
  (call = "inverseKinematics" /\ ~BeyondReach(args.p1) /\ ~AtBase(args.p1)) =>
    outcome.status = "returned" /\ Len(angles) = 2

\* C5: whenever inverseKinematics returns for a reachable target, the two
\* values are base + elbow and base - elbow, with base = atan2(x, y) (the
\* direction measured from the y axis) and elbow = acos(D / reach); for
\* x = 0 < y the base is 0 and the two values are opposite, (60, -60) for
\* the target (0, 200).
C5_Atan2PlusMinusElbow ==
  (call = "inverseKinematics" /\ outcome.status = "returned"
     /\ ~AtBase(args.p1)) =>
    LET x == args.p1.x
        y == args.p1.y
        base == IF y > 0 THEN AtanDeg(x, y)
                ELSE IF y = 0 THEN 90 * Sgn(x)
                ELSE IF x >= 0 THEN 180 + AtanDeg(x, y)
                ELSE AtanDeg(x, y) - 180
        elbow == AcosDeg(args.p1)
    IN  /\ angles = <<base + elbow, base - elbow>>
        /\ (x = 0 /\ y > 0 => angles[1] = -angles[2])
        /\ (x = 0 /\ y = 200 => angles = <<60, -60>>)

\* C6: in every run of square, circle or star no command has been sent
\* before all the solver calls of the run have completed, and a run that a
\* solver failure ends has sent nothing.
C6_SolveAllBeforeSend ==
  call \in Shapes =>
    /\ sent # <<>> =>
         Len(locals) = Cardinality({k \in 1..Len(Body(call)) :
                                      Body(call)[k].op = "solve"})
    /\ outcome.status = "raised" => sent = <<>>

\* C7: interpolatePoints called with a resolution that is zero or negative
\* raises; it returns no sequence, whatever the endpoints.
C7_NonPositiveResolutionRaises ==
  (call = "interpolatePoints" /\ args.res2 <= 0) => outcome.status = "raised"

\* the interpolated points on which the solver fails
FailingPoints ==
  {i \in 1..Len(interpPoints) :
     InverseKinematics(interpPoints[i], TRUE).status = "raised"}

\* C8: when the solver fails on some interpolated point, convertWaypoints
\* goes no further than the first such point, never returns, and ends at
\* that point with only the solver's error and no list of angles.
C8_AllOrNothing ==
  (call = "convertWaypoints" /\ FailingPoints # {}) =>
    LET first == CHOOSE i \in FailingPoints : \A j \in FailingPoints : i <= j
    IN  /\ pc <= first
        /\ Len(waypoints) < first
        /\ outcome.status # "returned"
        /\ outcome.status = "raised" =>
             /\ pc = first
             /\ waypoints = <<>>
             /\ outcome.error = InverseKinematics(interpPoints[first], TRUE).error

\* a call of convertWaypoints that failed after it had solved two points or
\* more
C8_Witness ==
  /\ call = "convertWaypoints"
  /\ outcome.status = "raised"
  /\ pc > 2

\* C9: when convertWaypoints returns, its list has as many elements as
\* interpolatePoints gives for the same endpoints at the default resolution,
\* and the i-th element is the solver's result for the i-th point.
C9_LengthAndOrder ==
  (call = "convertWaypoints" /\ outcome.status = "returned") =>
    LET pts == InterpolatePoints(args.p1, args.p2, DefaultRes2).value
    IN  /\ Len(waypoints) = Len(pts)
        /\ \A i \in 1..Len(pts) :
             waypoints[i] = InverseKinematics(pts[i], TRUE).value

\* a returned plan of at least three points whose angles are not all equal
C9_Witness ==
  /\ call = "convertWaypoints"
  /\ outcome.status = "returned"
  /\ Len(waypoints) >= 3
  /\ \E i \in 1..Len(waypoints) : waypoints[i] # waypoints[1]

\* C10: for every target with y # 0 within reach, inverseKinematics returns
\* for (x, y) exactly the pair of angles it returns for (-x, y).
C10_MirrorSameAngles ==
  (call = "inverseKinematics" /\ args.p1.y # 0 /\ ~BeyondReach(args.p1)) =>
    /\ outcome.status = "returned"
    /\ angles = InverseKinematics([args.p1 EXCEPT !.x = -args.p1.x],
                                  args.np).value

\* the target (100, 200) of square(), whose mirror image (-100, 200) is the
\* next target of square()
C10_Witness ==
  /\ call = "inverseKinematics"
  /\ args.p1 = Point(100, 200)
  /\ outcome.status = "returned"
  /\ Len(angles) = 2

====
